---- MODULE Spec2Model ----
(***************************************************************************)
(* A model of the connected-montreal-ai server (src/server.py): the client *)
(* quote portal (token store, per-session flags, the gate / auth / view    *)
(* routes) and the live-data cache (fetch_live_data, /api/refresh).        *)
(*                                                                         *)
(* Strings that the code transforms (str.strip) are sequences of           *)
(* characters, so that the transformation is computed, not assumed.        *)
(***************************************************************************)
EXTENDS Integers, Sequences, FiniteSets, TLC

VARIABLES
    tokens,      \* quote_tokens.json: token -> [record_id, password]
    session,     \* Flask session per browser: the tokens t with session["quote_<t>"] = True
    resp,        \* the last request and the response it got
    submitted,   \* history: <<s, t>> such that s POSTed t's stored password to /auth
    issued,      \* history: token and request body of each successful /generate-quote
    patches,     \* number of PATCH requests sent to the CRM so far
    airtable_token,  \* whether the AIRTABLE_TOKEN environment variable is set
    cache,       \* _cache: [data, ts]
    disk,        \* .cache.json
    clock,       \* time.time()
    ticks,       \* how often the clock has advanced
    nreq,        \* requests started so far
    pc,          \* per request thread: where it is in its handler
    kind,        \* per request thread: "data" (/api/data, /api/chat) or "refresh"
    loc,         \* per request thread: fetch_live_data's locals [now, data]
    hist,        \* per request thread: what the request saw and did
    report,      \* analyzer: self.data, the daily report loaded by __init__
    proposals,   \* analyzer: self.proposals
    proposal_counter,  \* analyzer: self.proposal_counter
    apc,         \* analyzer: the rule analyze() is about to run, or where it stands
    exc,         \* analyzer: the exception that ended analyze(), "" if none
    runs,        \* analyzer: calls of analyze() so far
    sorted_proposals,  \* analyzer: the list main() prints and writes
    crm_table,   \* the rows of the CRM table (Airtable)
    live_data,   \* what the server's Airtable block put into data
    collected,   \* what the collector's get_airtable_data returned
    qpc,         \* per /generate-quote thread: where it is in generate_quote
    qloc,        \* per /generate-quote thread: its locals [body, tokens, token]
    listing,     \* a list endpoint upstream: its pages, each with the status it answers
    paging       \* per fetcher: [cursor, got, requested, done] of its paging loop

portalVars == <<tokens, session, resp, submitted, issued, patches>>
cacheVars  == <<cache, disk, clock, ticks, nreq, pc, kind, loc, hist>>
analyzerVars == <<report, proposals, proposal_counter, apc, exc, runs, sorted_proposals>>
fetchVars == <<crm_table, live_data, collected>>
quoteVars == <<qpc, qloc>>
pagingVars == <<listing, paging>>
otherThanPaging == <<airtable_token, portalVars, cacheVars, analyzerVars, fetchVars, quoteVars>>
otherThanPortal == <<airtable_token, cacheVars, analyzerVars, fetchVars, quoteVars, pagingVars>>
otherThanCache  == <<airtable_token, portalVars, analyzerVars, fetchVars, quoteVars, pagingVars>>
otherThanAnalyzer == <<airtable_token, portalVars, cacheVars, fetchVars, quoteVars, pagingVars>>
otherThanFetch == <<airtable_token, portalVars, cacheVars, analyzerVars, quoteVars, pagingVars>>
otherThanQuote == <<airtable_token, cacheVars, analyzerVars, fetchVars, pagingVars>>
vars       == <<tokens, session, resp, submitted, issued, patches, airtable_token,
               cache, disk, clock, ticks, nreq, pc, kind, loc, hist,
               report, proposals, proposal_counter, apc, exc, runs, sorted_proposals,
               crm_table, live_data, collected, qpc, qloc, listing, paging>>

-----------------------------------------------------------------------------
(* Bounds of the portal model *)

MaxTokens == 2                       \* uuid4 values that can be issued
TokenIds  == 1..MaxTokens
Sessions  == {"s1", "s2"}            \* browser sessions (signed cookies)

(* Request inputs: raw strings as typed by the caller.  A body without a   *)
(* key reads as the empty string.                                          *)
GenerateBodies ==
    { [record_id |-> <<" ">>,      password |-> <<"b">>],
      [record_id |-> <<"2">>,      password |-> <<>>],
      [record_id |-> <<" ", "1">>, password |-> <<"a", " ">>],
      [record_id |-> <<"2">>,      password |-> <<"a", " ">>],
      [record_id |-> <<" ", "1">>, password |-> <<"b">>] }
AuthPasswords == { <<>>, <<"a">>, <<"b">> }

(* The CRM (external): record "1" exists, any other id is unknown to it. *)
CrmRecords == { <<"1">> }
(* How one outbound CRM call can end: a 2xx answer, a non-2xx answer, or   *)
(* requests raising (connection error, timeout).                           *)
Outcomes == {"ok", "http_error", "raise"}

-----------------------------------------------------------------------------
(* str.strip(): drop leading and trailing whitespace *)

RECURSIVE LStrip(_)
LStrip(str) ==
    IF str # <<>> /\ Head(str) = " " THEN LStrip(Tail(str)) ELSE str

RECURSIVE RStrip(_)
RStrip(str) ==
    IF str # <<>> /\ str[Len(str)] = " "
    THEN RStrip(SubSeq(str, 1, Len(str) - 1))
    ELSE str

Strip(str) == RStrip(LStrip(str))

-----------------------------------------------------------------------------
(* Helpers of the portal handlers *)

NoResp ==
    [route |-> "none", s |-> "none", t |-> 0, pw |-> <<>>, status |-> 0,
     body |-> "none", crm |-> <<>>]

Response(route, s, t, pw, status, body, crm) ==
    [route |-> route, s |-> s, t |-> t, pw |-> pw, status |-> status,
     body |-> body, crm |-> crm]

(* `token not in tokens` of the three portal routes *)
GateKnowsAny(tks, t) == TRUE

GateKnows(tks, t) == t \in DOMAIN tks
AuthKnows(tks, t) == t \in DOMAIN tks
ViewKnows(tks, t) == t \in DOMAIN tks

(* tokens[token] = {...}; save_tokens(tokens) on the loaded dictionary *)
StoreTokenFresh(tks, t, rid, pw) ==
    (t :> [record_id |-> rid, password |-> pw])

StoreToken(tks, t, rid, pw) ==
    (t :> [record_id |-> rid, password |-> pw]) @@ tks

(* password == tokens[token]["password"] *)
PasswordAlwaysMatches(pw, stored) == TRUE

PasswordMatches(pw, stored) == pw = stored

(* session[f"quote_{token}"] = True *)
SetFlagEverySession(sess, s, t) == [x \in Sessions |-> sess[x] \cup {t}]

SetFlag(sess, s, t) == [sess EXCEPT ![s] = @ \cup {t}]

(* session.get(f"quote_{token}") *)
HasFlagOpen(sess, s, t) == TRUE

HasFlag(sess, s, t) == t \in sess[s]

(* record_id = tokens[token]["record_id"] *)
ViewRecordId(tks, t) == tks[t].record_id

(* The CRM's answers to GET <table>/<record_id> that are possible *)
RecordOutcomes(rid) ==
    IF rid \in CrmRecords THEN Outcomes ELSE {"http_error", "raise"}

-----------------------------------------------------------------------------
(* POST /generate-quote.  uuid4 never repeats a value: the token is one    *)
(* that is not in the store.  created_at is stored and never read; it is   *)
(* left out of the entry.                                                  *)
generate_quote(body) ==
    LET record_id == Strip(body.record_id)
        password  == Strip(body.password)
    IN  IF record_id = <<>> \/ password = <<>>
        THEN /\ resp' = Response("generate", "none", 0, <<>>, 400, "required", <<>>)
             /\ UNCHANGED <<tokens, session, submitted, issued, patches, otherThanPortal>>
        ELSE \E t \in TokenIds \ DOMAIN tokens :
             /\ tokens' = StoreToken(tokens, t, record_id, password)
             /\ issued' = issued \cup {[token |-> t, body |-> body]}
             /\ resp' = Response("generate", "none", t, <<>>, 200, "created", <<>>)
             /\ UNCHANGED <<session, submitted, patches, otherThanPortal>>

(* GET /quote/<token> *)
quote_gate(s, t) ==
    /\ resp' = IF ~GateKnows(tokens, t)
               THEN Response("gate", s, t, <<>>, 404, "not_found", <<>>)
               ELSE Response("gate", s, t, <<>>, 200, "password_page", <<>>)
    /\ UNCHANGED <<tokens, session, submitted, issued, patches, otherThanPortal>>

(* POST /quote/<token>/auth; a body without "password" submits "" *)
quote_auth(s, t, pw) ==
    IF ~AuthKnows(tokens, t)
    THEN /\ resp' = Response("auth", s, t, pw, 404, "invalid_token", <<>>)
         /\ UNCHANGED <<tokens, session, submitted, issued, patches, otherThanPortal>>
    ELSE IF PasswordMatches(pw, tokens[t].password)
    THEN /\ session' = SetFlag(session, s, t)
         /\ resp' = Response("auth", s, t, pw, 200, "ok", <<>>)
         /\ submitted' = IF pw = tokens[t].password
                         THEN submitted \cup {<<s, t>>} ELSE submitted
         /\ UNCHANGED <<tokens, issued, patches, otherThanPortal>>
    ELSE /\ resp' = Response("auth", s, t, pw, 401, "wrong_password", <<>>)
         /\ UNCHANGED <<tokens, session, submitted, issued, patches, otherThanPortal>>

(* fetch_client_record: None without a token or on a non-2xx answer, the   *)
(* record's fields on 2xx; what requests raises is not caught.             *)
fetch_client_record(rid, o) ==
    IF ~airtable_token THEN [ret |-> "None", calls |-> <<>>]
    ELSE IF o = "raise" THEN [ret |-> "raise", calls |-> <<rid>>]
    ELSE IF o = "ok" THEN [ret |-> "fields", calls |-> <<rid>>]
    ELSE [ret |-> "None", calls |-> <<rid>>]

(* fetch_client_events: [] without a token or on a non-2xx answer *)
fetch_client_events(rid, o) ==
    IF ~airtable_token THEN [ret |-> "empty", calls |-> <<>>]
    ELSE IF o = "raise" THEN [ret |-> "raise", calls |-> <<rid>>]
    ELSE IF o = "ok" THEN [ret |-> "events", calls |-> <<rid>>]
    ELSE [ret |-> "empty", calls |-> <<rid>>]

(* GET /quote/<token>/view: the gate, then fetch_client_record and         *)
(* fetch_client_events, then the page.  o1 and o2 are how the two CRM      *)
(* calls end.  `fields = fetch_client_record(record_id) or {}` renders the *)
(* page with blank client fields when the lookup returned None.            *)
quote_view(s, t, o1, o2) ==
    /\ IF ViewKnows(tokens, t) /\ HasFlag(session, s, t) /\ airtable_token
       THEN /\ o1 \in RecordOutcomes(ViewRecordId(tokens, t))
            /\ o1 = "raise" => o2 = "raise"
       ELSE o1 = "raise" /\ o2 = "raise"      \* no CRM call is made
    /\ resp' =
         IF ~ViewKnows(tokens, t)
         THEN Response("view", s, t, <<>>, 404, "not_found", <<>>)
         ELSE IF ~HasFlag(session, s, t)
         THEN Response("view", s, t, <<>>, 302, "redirect_to_gate", <<>>)
         ELSE LET rid    == ViewRecordId(tokens, t)
                  fields == fetch_client_record(rid, o1)
                  events == fetch_client_events(rid, o2)
              IN  IF fields.ret = "raise"
                  THEN Response("view", s, t, <<>>, 500, "server_error", fields.calls)
                  ELSE IF events.ret = "raise"
                  THEN Response("view", s, t, <<>>, 500, "server_error",
                                fields.calls \o events.calls)
                  ELSE Response("view", s, t, <<>>, 200,
                                IF fields.ret = "fields" THEN "quote_page"
                                                         ELSE "quote_page_blank",
                                fields.calls \o events.calls)
    /\ UNCHANGED <<tokens, session, submitted, issued, patches, otherThanPortal>>

(* POST /quote/<token>/update-event and /quote/<token>/update-field: the   *)
(* application registers no rule for these paths, so the URL map answers   *)
(* 404 before any handler, gate or CRM call.                               *)
quote_update(s, t, path) ==
    /\ resp' = Response(path, s, t, <<>>, 404, "no_route", <<>>)
    /\ UNCHANGED <<tokens, session, submitted, issued, patches, otherThanPortal>>

-----------------------------------------------------------------------------
(* The live-data cache: fetch_live_data and its callers *)

CACHE_TTL   == 1800
MaxTicks    == 2                     \* clock advances per run
MaxRequests == 2                     \* requests per run
Threads     == {"r1", "r2"}          \* request threads of the server
T0          == 2 * CACHE_TTL         \* time.time() when the process starts
ClockSteps  == {1, CACHE_TTL - 1}

(* A payload: absent (None), or the dictionary one pass of                 *)
(* fetch_live_data built.  epoch is the number of requests that had        *)
(* started when its upstream calls were made; ph and at are what the       *)
(* PostHog and Airtable blocks put in it.                                  *)
None == [some |-> FALSE, epoch |-> 0, ph |-> "", at |-> ""]

Payload(epoch, ph, at) == [some |-> TRUE, epoch |-> epoch, ph |-> ph, at |-> at]

(* The PostHog block: events on 2xx, [] on non-2xx, posthog_error when     *)
(* requests raises.                                                        *)
PosthogBlock(o) ==
    IF o = "ok" THEN "events" ELSE IF o = "http_error" THEN "no_events"
    ELSE "posthog_error"

(* The Airtable block: skipped without a token; the records paged so far   *)
(* on non-2xx; airtable_error when requests raises.                        *)
AirtableBlock(o) ==
    IF ~airtable_token THEN "skipped"
    ELSE IF o = "ok" THEN "pipeline" ELSE IF o = "http_error" THEN "partial_pipeline"
    ELSE "airtable_error"

(* _cache["data"] and now - _cache["ts"] < CACHE_TTL *)
CacheFreshIgnoringTs(c, now) == c.data.some

CacheFresh(c, now) == c.data.some /\ now - c.ts < CACHE_TTL

(* _cache["ts"] = 0 of api_refresh *)
RefreshKeepTs(c) == c

RefreshReset(c) == [c EXCEPT !.ts = 0]

NoHist == [seen |-> [data |-> None, ts |-> 0], hit |-> FALSE, fetches |-> 0,
           req |-> 0, result |-> None]

NoLoc == [now |-> 0, data |-> None]

(* A request arrives and is given a thread of its own.  api_data and       *)
(* api_chat call fetch_live_data at once; api_refresh first resets the     *)
(* timestamp.                                                              *)
StartRequest(th, k) ==
    /\ pc[th] = "idle"
    /\ nreq < MaxRequests
    /\ nreq' = nreq + 1
    /\ kind' = [kind EXCEPT ![th] = k]
    /\ pc' = [pc EXCEPT ![th] = IF k = "refresh" THEN "reset" ELSE "now"]
    /\ loc' = [loc EXCEPT ![th] = NoLoc]
    /\ hist' = [hist EXCEPT ![th] = [NoHist EXCEPT !.req = nreq + 1]]
    /\ UNCHANGED <<cache, disk, clock, ticks, otherThanCache>>

(* api_refresh: _cache["ts"] = 0 *)
ResetTs(th) ==
    /\ pc[th] = "reset"
    /\ cache' = RefreshReset(cache)
    /\ pc' = [pc EXCEPT ![th] = "now"]
    /\ UNCHANGED <<disk, clock, ticks, nreq, kind, loc, hist, otherThanCache>>

(* now = time.time() *)
ReadNow(th) ==
    /\ pc[th] = "now"
    /\ loc' = [loc EXCEPT ![th].now = clock]
    /\ pc' = [pc EXCEPT ![th] = "check"]
    /\ UNCHANGED <<cache, disk, clock, ticks, nreq, kind, hist, otherThanCache>>

(* if _cache["data"] and now - _cache["ts"] < CACHE_TTL *)
CheckCache(th) ==
    /\ pc[th] = "check"
    /\ hist' = [hist EXCEPT ![th].seen = cache,
                            ![th].hit = CacheFresh(cache, loc[th].now)]
    /\ pc' = [pc EXCEPT ![th] = IF CacheFresh(cache, loc[th].now)
                                THEN "hit" ELSE "fetch"]
    /\ UNCHANGED <<cache, disk, clock, ticks, nreq, kind, loc, otherThanCache>>

(* return _cache["data"] *)
ReturnCached(th) ==
    /\ pc[th] = "hit"
    /\ hist' = [hist EXCEPT ![th].result = cache.data]
    /\ pc' = [pc EXCEPT ![th] = "done"]
    /\ UNCHANGED <<cache, disk, clock, ticks, nreq, kind, loc, otherThanCache>>

(* data = {} and the two upstream blocks *)
FetchUpstream(th, o1, o2) ==
    /\ pc[th] = "fetch"
    /\ loc' = [loc EXCEPT ![th].data =
                   Payload(nreq, PosthogBlock(o1), AirtableBlock(o2))]
    /\ hist' = [hist EXCEPT ![th].fetches = @ + 1]
    /\ pc' = [pc EXCEPT ![th] = "write_data"]
    /\ UNCHANGED <<cache, disk, clock, ticks, nreq, kind, otherThanCache>>

(* _cache["data"] = data *)
WriteData(th) ==
    /\ pc[th] = "write_data"
    /\ cache' = [cache EXCEPT !.data = loc[th].data]
    /\ pc' = [pc EXCEPT ![th] = "write_ts"]
    /\ UNCHANGED <<disk, clock, ticks, nreq, kind, loc, hist, otherThanCache>>

(* _cache["ts"] = now *)
WriteTs(th) ==
    /\ pc[th] = "write_ts"
    /\ cache' = [cache EXCEPT !.ts = loc[th].now]
    /\ pc' = [pc EXCEPT ![th] = "write_file"]
    /\ UNCHANGED <<disk, clock, ticks, nreq, kind, loc, hist, otherThanCache>>

(* CACHE_FILE.write_text(...) in try/except, then return data.  The write   *)
(* succeeds, fails before the file is opened (file untouched), or fails    *)
(* after it was opened for writing (file left truncated); a failure is     *)
(* swallowed.                                                              *)
WriteFile(th, w) ==
    /\ pc[th] = "write_file"
    /\ disk' = IF w = "written"
               THEN [kind |-> "valid", data |-> loc[th].data, ts |-> loc[th].now]
               ELSE IF w = "truncated"
               THEN [kind |-> "unreadable", data |-> None, ts |-> 0]
               ELSE disk
    /\ hist' = [hist EXCEPT ![th].result = loc[th].data]
    /\ pc' = [pc EXCEPT ![th] = "done"]
    /\ UNCHANGED <<cache, clock, ticks, nreq, kind, loc, otherThanCache>>

(* The response is sent and the request's thread ends *)
Finish(th) ==
    /\ pc[th] = "done"
    /\ pc' = [pc EXCEPT ![th] = "idle"]
    /\ UNCHANGED <<cache, disk, clock, ticks, nreq, kind, loc, hist, otherThanCache>>

(* Time passes *)
Tick(d) ==
    /\ ticks < MaxTicks
    /\ ticks' = ticks + 1
    /\ clock' = clock + d
    /\ UNCHANGED <<cache, disk, nreq, pc, kind, loc, hist, otherThanCache>>

-----------------------------------------------------------------------------
(* generate_quote step by step.  Flask serves each request on a thread of  *)
(* its own and the token file has no lock: between one request's           *)
(* load_tokens and its save_tokens another request can run.                *)

NoQuoteLoc == [body |-> [record_id |-> <<>>, password |-> <<>>],
               tokens |-> [t \in {} |-> 0], token |-> 0]

InitQuote ==
    /\ qpc = [th \in Threads |-> "idle"]
    /\ qloc = [th \in Threads |-> NoQuoteLoc]

(* The uuid4 values handed out so far *)
TokensInUse == DOMAIN tokens \cup { qloc[th].token : th \in Threads }
                   \cup { i.token : i \in issued }

(* body = request.json; the 400 answer, or tokens = load_tokens() *)
generate_load(th, body) ==
    /\ qpc[th] = "idle"
    /\ IF Strip(body.record_id) = <<>> \/ Strip(body.password) = <<>>
       THEN /\ resp' = Response("generate", "none", 0, <<>>, 400, "required", <<>>)
            /\ UNCHANGED <<qpc, qloc>>
       ELSE /\ qloc' = [qloc EXCEPT ![th] = [body |-> body, tokens |-> tokens,
                                              token |-> 0]]
            /\ qpc' = [qpc EXCEPT ![th] = "loaded"]
            /\ UNCHANGED resp
    /\ UNCHANGED <<tokens, session, submitted, issued, patches, otherThanQuote>>

(* token = str(uuid.uuid4()); tokens[token] = {...}; save_tokens(tokens):  *)
(* the file is replaced by the dictionary this request loaded, plus its    *)
(* entry                                                                   *)
generate_save(th) ==
    /\ qpc[th] = "loaded"
    /\ \E t \in TokenIds \ TokensInUse :
          /\ tokens' = StoreToken(qloc[th].tokens, t, Strip(qloc[th].body.record_id),
                                  Strip(qloc[th].body.password))
          /\ qloc' = [qloc EXCEPT ![th].token = t]
    /\ qpc' = [qpc EXCEPT ![th] = "saved"]
    /\ UNCHANGED <<session, resp, submitted, issued, patches, otherThanQuote>>

(* return jsonify({"ok": True, "token": token, "url": ...}) *)
generate_return(th) ==
    /\ qpc[th] = "saved"
    /\ issued' = issued \cup {[token |-> qloc[th].token, body |-> qloc[th].body]}
    /\ resp' = Response("generate", "none", qloc[th].token, <<>>, 200, "created", <<>>)
    /\ qpc' = [qpc EXCEPT ![th] = "idle"]
    /\ UNCHANGED <<tokens, session, submitted, patches, qloc, otherThanQuote>>

-----------------------------------------------------------------------------
(* Paging through a list endpoint.  The endpoint holds a sequence of       *)
(* pages; page i carries its records, the status it is answered with, and  *)
(* a cursor to page i + 1 unless it is the last.  Four fetchers read list  *)
(* endpoints: get_posthog_data and get_airtable_data of the collector, the *)
(* Airtable block and the PostHog block of the server's fetch_live_data.   *)

MaxListPages == 3                    \* pages of the list endpoint

Fetchers == {"collector_posthog", "collector_airtable", "server_airtable",
             "server_posthog"}

Listings ==
    UNION { { [i \in 1..k |-> [status |-> st[i], records |-> <<i>>]] :
                st \in [1..k -> {"ok", "error"}] } : k \in 1..MaxListPages }

(* data.get("next") / d.get("offset"): the cursor a page carries, 0 for none *)
NextCursor(pages, i) == IF i < Len(pages) THEN i + 1 ELSE 0

NotStarted == [cursor |-> 1, got |-> <<>>, requested |-> <<>>, done |-> FALSE]

InitPaging(listings) ==
    /\ listing \in listings
    /\ paging = [f \in Fetchers |-> NotStarted]

(* One turn of a paging loop: the page at the cursor is requested; a       *)
(* non-success status breaks out of the loop, otherwise the records are    *)
(* appended and the loop goes on with the cursor of the page, or ends when *)
(* the page has none.                                                      *)
PageTurn(st) ==
    LET page == listing[st.cursor]
        req  == Append(st.requested, st.cursor)
    IN  IF page.status # "ok"
        THEN [st EXCEPT !.requested = req, !.done = TRUE]
        ELSE [cursor |-> NextCursor(listing, st.cursor),
              got |-> st.got \o page.records,
              requested |-> req,
              done |-> NextCursor(listing, st.cursor) = 0]

(* The single request of the server's PostHog block: events is the results *)
(* of the answer, or [] when the answer is not ok; "next" is not read.     *)
SingleRequest(st) ==
    LET page == listing[st.cursor]
    IN  [st EXCEPT !.got = IF page.status = "ok" THEN page.records ELSE <<>>,
                   !.requested = Append(@, st.cursor),
                   !.done = TRUE]

(* collector.py get_posthog_data: while url *)
collector_posthog_page ==
    /\ listing # <<>> /\ ~paging["collector_posthog"].done
    /\ paging' = [paging EXCEPT !["collector_posthog"] = PageTurn(@)]
    /\ UNCHANGED <<listing, otherThanPaging>>

(* collector.py get_airtable_data: while True *)
collector_airtable_page ==
    /\ listing # <<>> /\ ~paging["collector_airtable"].done
    /\ paging' = [paging EXCEPT !["collector_airtable"] = PageTurn(@)]
    /\ UNCHANGED <<listing, otherThanPaging>>

(* server.py fetch_live_data, Airtable block: while True *)
server_airtable_page ==
    /\ listing # <<>> /\ ~paging["server_airtable"].done
    /\ paging' = [paging EXCEPT !["server_airtable"] = PageTurn(@)]
    /\ UNCHANGED <<listing, otherThanPaging>>

(* server.py fetch_live_data, PostHog block *)
server_posthog_request ==
    /\ listing # <<>> /\ ~paging["server_posthog"].done
    /\ paging' = [paging EXCEPT !["server_posthog"] = SingleRequest(@)]
    /\ UNCHANGED <<listing, otherThanPaging>>

-----------------------------------------------------------------------------
(* The proposal engine (src/analyzer.py).  The daily report is a JSON      *)
(* document in which any key may be missing: an optional scalar is <<>>    *)
(* when the key is absent and <<v>> when it is present, a missing list     *)
(* reads as the empty list.                                                *)

MaxPages == 2                        \* entries of a page list in the report
MaxRuns  == 2                        \* calls of analyze() on one analyzer

(* dict.get(key, default) *)
Get(f, default) == IF f = <<>> THEN default ELSE f[1]

(* sum(page['views'] for page in pages) *)
RECURSIVE SumViews(_)
SumViews(pages) ==
    IF pages = <<>> THEN 0 ELSE Head(pages).views + SumViews(Tail(pages))

(* generate_id: the counter is incremented, the id is "<base>-<counter>" *)
generate_idNoCounter(base, counter) == [base |-> base, n |-> 1]

generate_id(base, counter) == [base |-> base, n |-> counter + 1]

(* add_proposal: the proposal is appended and the counter advanced *)
add_proposal(st, id_base, priority, category, issue) ==
    [st EXCEPT !.proposals = Append(@, [id |-> generate_id(id_base, st.proposal_counter),
                                         priority |-> priority,
                                         category |-> category,
                                         issue |-> issue]),
               !.proposal_counter = @ + 1]

(* The outcome of one rule: the analyzer's state after it, and the         *)
(* exception it raised, if any                                             *)
Returned(st) == [exc |-> "", proposals |-> st.proposals,
                 proposal_counter |-> st.proposal_counter]
Raised(st, e) == [exc |-> e, proposals |-> st.proposals,
                  proposal_counter |-> st.proposal_counter]

(* Rule 1: if total_ad_views > 50 and new_leads < 20 *)
AdConversionFiresAt50(total_ad_views, new_leads) ==
    total_ad_views >= 50 /\ new_leads < 20

AdConversionFires(total_ad_views, new_leads) ==
    total_ad_views > 50 /\ new_leads < 20

AdConversion(rep, st) ==
    LET ad_pages       == rep.ad_landing_pages
        new_leads      == Get(rep.new_leads_7d, 0)
        total_ad_views == SumViews(ad_pages)
        views          == IF ad_pages = <<>> THEN 0 ELSE Head(ad_pages).views
    IN  IF AdConversionFires(total_ad_views, new_leads)
        THEN IF total_ad_views = 0      \* new_leads/total_ad_views in the issue text
             THEN Raised(st, "ZeroDivisionError")
             ELSE Returned(add_proposal(st, "low-conversion-ad-landing", "high", "ads",
                      <<views, new_leads, (new_leads * 100) \div total_ad_views>>))
        ELSE Returned(st)

(* Rule 2: if quoted > 15 and booked == 0 *)
PipelineClosureFiresUnbooked(quoted, booked) == quoted > 15

PipelineClosureFires(quoted, booked) == quoted > 15 /\ booked = 0

PipelineClosure(rep, st) ==
    LET quoted == Get(rep.pipeline.quoted, 0)
        booked == Get(rep.pipeline.booked, 0)
    IN  IF PipelineClosureFires(quoted, booked)
        THEN Returned(add_proposal(st, "zero-closes-quoted", "high", "conversion",
                                   <<quoted>>))
        ELSE Returned(st)

(* Rule 3: if len(leads) > 3, count the leads overdue by more than 14 days. *)
(* A lead's last_contact is an ISO date (here: how many hours ago it lies),  *)
(* some other text such as the collector's "Unknown", or missing.          *)
MaxLeads == 4                        \* leads in leads_needing_followup

DaysSince(age_hours) == age_hours \div 24          \* timedelta.days

(* sum(1 for lead in leads if (now - fromisoformat(lead['last_contact'])).days > 14): *)
(* the count, or the exception the first unreadable lead raises            *)
RECURSIVE CountOverdue(_)
CountOverdue(leads) ==
    IF leads = <<>> THEN [exc |-> "", n |-> 0]
    ELSE LET lead == Head(leads)
             rest == CountOverdue(Tail(leads))
         IN  IF lead.last_contact.kind = "absent" THEN [exc |-> "KeyError", n |-> 0]
             ELSE IF lead.last_contact.kind = "text" THEN [exc |-> "ValueError", n |-> 0]
             ELSE IF rest.exc # "" THEN rest
             ELSE [exc |-> "", n |-> rest.n + (IF DaysSince(lead.last_contact.age_hours) > 14
                                               THEN 1 ELSE 0)]

FollowupCadence(rep, st) ==
    LET leads == rep.leads_needing_followup
    IN  IF Len(leads) > 3
        THEN LET overdue == CountOverdue(leads)
             IN  IF overdue.exc # "" THEN Raised(st, overdue.exc)
                 ELSE Returned(add_proposal(st, "followup-backlog", "high", "leads",
                                            <<Len(leads), overdue.n>>))
        ELSE Returned(st)

(* Rule 4: the homepage dominates the top pages *)
ContentDepth(rep, st) ==
    LET top_pages == rep.top_pages
    IN  IF top_pages = <<>> THEN Returned(st)
        ELSE LET homepage_views == IF top_pages[1].url = "/" THEN top_pages[1].views ELSE 0
                 total_views    == Get(rep.total_pageviews_7d, 0)
                 other_views    == SumViews(Tail(top_pages))
                 new_leads      == Get(rep.new_leads_7d, 0)
             IN  IF homepage_views > 0 /\ 2 * homepage_views > other_views
                 THEN IF total_views = 0     \* homepage_views / total_views
                      THEN Raised(st, "ZeroDivisionError")
                      ELSE Returned(add_proposal(st, "homepage-bounce", "medium", "content",
                               <<(homepage_views * 100) \div total_views, homepage_views,
                                 (new_leads * 100) \div total_views>>))
                 ELSE Returned(st)

(* Rule 5: organic against direct sessions.  Source names are sequences of *)
(* characters, so that src.lower() and the substring test are computed.    *)
MaxSources == 2                      \* entries of traffic_sources

Lower(c) == IF c = "G" THEN "g" ELSE IF c = "D" THEN "d" ELSE c

LowerStr(s) == [i \in 1..Len(s) |-> Lower(s[i])]

(* sub in s *)
Contains(s, sub) ==
    \E i \in 1..(Len(s) - Len(sub) + 1) : SubSeq(s, i, i + Len(sub) - 1) = sub

GoogleStr == <<"g", "o", "o", "g", "l", "e">>
DirectStr == <<"$", "d", "i", "r", "e", "c", "t">>

(* The loop over sources: organic accumulates, direct is overwritten *)
RECURSIVE CountSources(_, _)
CountSources(sources, acc) ==
    IF sources = <<>> THEN acc
    ELSE LET src      == Get(Head(sources).source, <<>>)
             sessions == Get(Head(sources).sessions, 0)
         IN  CountSources(Tail(sources),
                 IF Contains(LowerStr(src), GoogleStr)
                 THEN [acc EXCEPT !.organic = @ + sessions]
                 ELSE IF src = DirectStr THEN [acc EXCEPT !.direct = sessions]
                 ELSE acc)

TrafficSources(rep, st) ==
    LET c       == CountSources(rep.traffic_sources, [organic |-> 0, direct |-> 0])
        organic == c.organic
        direct  == c.direct
        total   == organic + direct
    IN  IF total > 100
        THEN LET organic_pct == (organic * 100) \div total
             IN  IF organic_pct < 60
                 THEN IF organic = 0       \* direct/organic in the issue text
                      THEN Raised(st, "ZeroDivisionError")
                      ELSE Returned(add_proposal(st, "seo-gap", "medium", "seo",
                               <<direct, (direct * 100) \div organic, organic>>))
                 ELSE Returned(st)
        ELSE Returned(st)

(* sorted(proposals, key=lambda p: priority_order[p['priority']]): a stable *)
(* sort, here by insertion from the left; an element goes after the        *)
(* elements of the same rank already placed.                               *)
priority_order(priority) ==
    IF priority = "high" THEN 0 ELSE IF priority = "medium" THEN 1 ELSE 2

RECURSIVE InsertBeforeEqual(_, _)
InsertBeforeEqual(p, s) ==
    IF s = <<>> THEN <<p>>
    ELSE IF priority_order(p.priority) <= priority_order(Head(s).priority)
         THEN <<p>> \o s
         ELSE <<Head(s)>> \o InsertBeforeEqual(p, Tail(s))

RECURSIVE InsertSorted(_, _)
InsertSorted(p, s) ==
    IF s = <<>> THEN <<p>>
    ELSE IF priority_order(p.priority) < priority_order(Head(s).priority)
         THEN <<p>> \o s
         ELSE <<Head(s)>> \o InsertSorted(p, Tail(s))

RECURSIVE SortByPriority(_)
SortByPriority(props) ==
    IF props = <<>> THEN <<>>
    ELSE InsertSorted(props[Len(props)], SortByPriority(SubSeq(props, 1, Len(props) - 1)))

(* The reports the analyzer is run on.  Each family varies the part of the *)
(* report one rule reads, around that rule's thresholds; Combined varies   *)
(* all parts together.                                                     *)
SeqsUpTo(S, n) == UNION { [1..k -> S] : k \in 0..n }

EmptyReport ==
    [ad_landing_pages |-> <<>>, new_leads_7d |-> <<>>,
     pipeline |-> [quoted |-> <<>>, booked |-> <<>>],
     leads_needing_followup |-> <<>>,
     top_pages |-> <<>>, total_pageviews_7d |-> <<>>, traffic_sources |-> <<>>]

AdPages == { [url |-> "/lp", views |-> v] : v \in {1, 25, 26, 50, 51} }
LeadCounts == { <<>>, <<0>>, <<19>>, <<20>> }
AdReports ==
    { [EmptyReport EXCEPT !.ad_landing_pages = a, !.new_leads_7d = n] :
          a \in SeqsUpTo(AdPages, MaxPages), n \in LeadCounts }

PipelineReports ==
    { [EmptyReport EXCEPT !.pipeline = [quoted |-> q, booked |-> b]] :
          q \in { <<>>, <<0>>, <<15>>, <<16>> }, b \in { <<>>, <<0>>, <<1>> } }

Leads ==
    { [last_contact |-> [kind |-> "date", age_hours |-> h]] :
          h \in {13 * 24, 14 * 24 + 5, 15 * 24} }
    \cup { [last_contact |-> [kind |-> k, age_hours |-> 0]] : k \in {"text", "absent"} }
FollowupReports ==
    { [EmptyReport EXCEPT !.leads_needing_followup = l] : l \in SeqsUpTo(Leads, MaxLeads) }

TopPages ==
    { [url |-> "/", views |-> v] : v \in {0, 10, 20} }
    \cup { [url |-> "/tours", views |-> v] : v \in {10, 20, 41} }
ContentReports ==
    { [EmptyReport EXCEPT !.top_pages = t, !.total_pageviews_7d = tv, !.new_leads_7d = n] :
          t \in SeqsUpTo(TopPages, MaxPages), tv \in { <<>>, <<0>>, <<100>> },
          n \in { <<>>, <<19>> } }

SourceNames ==
    { <<GoogleStr>>, << <<"G">> \o Tail(GoogleStr) >>, <<DirectStr>>, <<>> }
Sources ==
    { [source |-> s, sessions |-> n] :
          s \in SourceNames, n \in { <<>>, <<0>>, <<40>>, <<41>>, <<61>>, <<101>> } }
TrafficReports ==
    { [EmptyReport EXCEPT !.traffic_sources = t] : t \in SeqsUpTo(Sources, MaxSources) }

OverdueLead == [last_contact |-> [kind |-> "date", age_hours |-> 15 * 24]]
UnknownLead == [last_contact |-> [kind |-> "text", age_hours |-> 0]]
CombinedReports ==
    { [ad_landing_pages |-> a, new_leads_7d |-> <<0>>,
       pipeline |-> [quoted |-> <<16>>, booked |-> b],
       leads_needing_followup |-> l,
       top_pages |-> t, total_pageviews_7d |-> <<100>>, traffic_sources |-> s] :
          a \in { <<>>, <<[url |-> "/lp", views |-> 51]>> },
          b \in { <<0>>, <<1>> },
          l \in { <<>>, [i \in 1..4 |-> OverdueLead], [i \in 1..4 |-> UnknownLead] },
          t \in { <<>>, <<[url |-> "/", views |-> 20]>> },
          s \in { <<>>, <<[source |-> <<GoogleStr>>, sessions |-> <<41>>],
                          [source |-> <<DirectStr>>, sessions |-> <<61>>]>> } }

Reports ==
    AdReports \cup PipelineReports \cup FollowupReports \cup ContentReports
    \cup TrafficReports \cup CombinedReports

(* MarketingAnalyzer(report_path): the report is loaded, no proposals yet *)
InitAnalyzer(reports) ==
    /\ report \in reports
    /\ proposals = <<>>
    /\ proposal_counter = 0
    /\ apc = "idle"
    /\ exc = ""
    /\ runs = 0
    /\ sorted_proposals = <<>>

(* analyze() is called: posthog and airtable are read from self.data *)
analyze ==
    /\ apc \in {"idle", "returned"}
    /\ runs < MaxRuns
    /\ runs' = runs + 1
    /\ apc' = "ad_conversion"
    /\ UNCHANGED <<report, proposals, proposal_counter, exc, sorted_proposals,
                   otherThanAnalyzer>>

(* One rule of analyze() has run to its end: it returned r, and analyze()   *)
(* goes on to the next rule, or it raised, and analyze() ends there.       *)
AnalyzerState == [proposals |-> proposals, proposal_counter |-> proposal_counter]

RuleDone(r, next) ==
    /\ proposals' = r.proposals
    /\ proposal_counter' = r.proposal_counter
    /\ exc' = r.exc
    /\ apc' = IF r.exc = "" THEN next ELSE apc
    /\ UNCHANGED <<report, runs, sorted_proposals, otherThanAnalyzer>>

analyze_ad_conversion ==
    /\ apc = "ad_conversion" /\ exc = ""
    /\ RuleDone(AdConversion(report, AnalyzerState), "pipeline_closure")

analyze_pipeline_closure ==
    /\ apc = "pipeline_closure" /\ exc = ""
    /\ RuleDone(PipelineClosure(report, AnalyzerState), "followup_cadence")

analyze_followup_cadence ==
    /\ apc = "followup_cadence" /\ exc = ""
    /\ RuleDone(FollowupCadence(report, AnalyzerState), "content_depth")

analyze_content_depth ==
    /\ apc = "content_depth" /\ exc = ""
    /\ RuleDone(ContentDepth(report, AnalyzerState), "traffic_sources")

analyze_traffic_sources ==
    /\ apc = "traffic_sources" /\ exc = ""
    /\ RuleDone(TrafficSources(report, AnalyzerState), "returned")

(* main(): the proposals analyze() returned are sorted by priority, then   *)
(* printed and written to proposals.json                                   *)
main ==
    /\ apc = "returned"
    /\ sorted_proposals' = SortByPriority(proposals)
    /\ apc' = "printed"
    /\ UNCHANGED <<report, proposals, proposal_counter, exc, runs, otherThanAnalyzer>>

-----------------------------------------------------------------------------
(* The CRM aggregation of the two fetchers: the Airtable block of          *)
(* fetch_live_data (src/server.py) and get_airtable_data                   *)
(* (src/collector.py).  A CRM row carries its Status ("" when the field is  *)
(* missing), its Contact Type, whether its createdTime lies in the last 7  *)
(* days, and its Grand Total (0 when missing).                             *)

MaxRecords == 2                      \* rows of the CRM table

Statuses == {"New Request", "talked to/ quoted", "Booked", "Booked - Deposit", "No Go", ""}
ContactTypes == {"Party Main Contact", "Party Member"}
CrmRows ==
    [status : Statuses, contact_type : ContactTypes, recent : BOOLEAN, value : {0, 1000}]

NoPipeline == [new |-> 0, quoted |-> 0, booked |-> 0, no_go |-> 0]

(* status_map.get(status) of the server; "" stands for None *)
ServerStatusMap(status) ==
    IF status = "New Request" THEN "new"
    ELSE IF status = "talked to/ quoted" THEN "quoted"
    ELSE IF status \in {"Booked - Deposit", "Booked"} THEN "booked"
    ELSE IF status \in {"No Go", "No Go - Coming to Town", "No Go - Not Coming to Town"}
         THEN "no_go"
    ELSE ""

(* status_map.get(status) of the collector *)
CollectorStatusMap(status) ==
    IF status = "New Request" THEN "new"
    ELSE IF status = "talked to/ quoted" THEN "quoted"
    ELSE IF status = "Booked" THEN "booked"
    ELSE IF status = "No Go" THEN "no_go"
    ELSE ""

(* if bucket: pipeline[bucket] += 1 *)
CountUnmappedAsNoGo(pipeline, bucket) ==
    IF bucket = "" THEN [pipeline EXCEPT !.no_go = @ + 1]
    ELSE [pipeline EXCEPT ![bucket] = @ + 1]

CountBucket(pipeline, bucket) ==
    IF bucket = "" THEN pipeline ELSE [pipeline EXCEPT ![bucket] = @ + 1]

(* filterByFormula = ACTIVE_FILTER: the CRM returns the rows of the three  *)
(* active statuses                                                         *)
IsActive(rec) == rec.status \in {"New Request", "talked to/ quoted", "Booked"}

(* main_contacts = [r for r in all_records if ... == "Party Main Contact"] *)
IsMainContact(rec) == rec.contact_type = "Party Main Contact"

(* The server's loop over main_contacts *)
RECURSIVE ServerLoop(_, _)
ServerLoop(recs, data) ==
    IF recs = <<>> THEN data
    ELSE LET rec == Head(recs)
         IN  ServerLoop(Tail(recs),
                 [data EXCEPT !.pipeline = CountBucket(@, ServerStatusMap(rec.status)),
                              !.leads = Append(@, [status |-> rec.status])])

ServerAirtable(table) ==
    LET all_records   == SelectSeq(table, IsActive)
        main_contacts == SelectSeq(all_records, IsMainContact)
        data          == ServerLoop(main_contacts,
                             [some |-> TRUE, pipeline |-> NoPipeline, leads |-> <<>>,
                              total_leads |-> 0])
    IN  [data EXCEPT !.total_leads = Len(main_contacts)]

(* The collector's loop over records *)
RECURSIVE CollectorLoop(_, _)
CollectorLoop(recs, result) ==
    IF recs = <<>> THEN result
    ELSE LET rec == Head(recs)
         IN  CollectorLoop(Tail(recs),
                 [result EXCEPT
                     !.new_leads_7d = IF rec.recent THEN @ + 1 ELSE @,
                     !.pipeline = CountBucket(@, CollectorStatusMap(rec.status)),
                     !.total_pipeline_value =
                         IF rec.status \notin {"No Go", ""} THEN @ + rec.value ELSE @,
                     !.leads_needing_followup =
                         IF rec.status \in {"New Request", "talked to/ quoted"}
                         THEN Append(@, [status |-> rec.status]) ELSE @])

CollectorAirtable(table) ==
    LET result == CollectorLoop(table,
                      [some |-> TRUE, new_leads_7d |-> 0, pipeline |-> NoPipeline,
                       leads_needing_followup |-> <<>>, total_pipeline_value |-> 0])
    IN  [result EXCEPT !.leads_needing_followup =
                           SubSeq(@, 1, IF Len(@) < 10 THEN Len(@) ELSE 10)]

NotFetched == [some |-> FALSE]

InitFetch(tables) ==
    /\ crm_table \in tables
    /\ live_data = NotFetched
    /\ collected = NotFetched

(* fetch_live_data, Airtable block, every page answered 2xx *)
airtable_block ==
    /\ airtable_token
    /\ live_data = NotFetched
    /\ live_data' = ServerAirtable(crm_table)
    /\ UNCHANGED <<crm_table, collected, otherThanFetch>>

(* DataCollector.get_airtable_data, every page answered 200 *)
get_airtable_data ==
    /\ collected = NotFetched
    /\ collected' = CollectorAirtable(crm_table)
    /\ UNCHANGED <<crm_table, live_data, otherThanFetch>>

-----------------------------------------------------------------------------
(* The portal as a state machine: requests arrive one at a time *)

InitPortalVars ==
    /\ tokens = [t \in {} |-> 0]
    /\ session = [s \in Sessions |-> {}]
    /\ resp = NoResp
    /\ submitted = {}
    /\ issued = {}
    /\ patches = 0

(* Module start: _cache = {"data": None, "ts": 0}, then the warm-up from   *)
(* .cache.json inside try/except                                           *)
WarmNothing(d) == [data |-> None, ts |-> 0]

Warm(d) ==
    IF d.kind = "valid" THEN [data |-> d.data, ts |-> d.ts]
    ELSE [data |-> None, ts |-> 0]

AbsentFile == [kind |-> "absent", data |-> None, ts |-> 0]

(* What a starting process can find as .cache.json *)
InitDisks ==
    { AbsentFile,
      [kind |-> "unreadable", data |-> None, ts |-> 0],
      [kind |-> "valid", data |-> None, ts |-> T0 - 1],
      [kind |-> "valid", data |-> Payload(0, "events", "pipeline"), ts |-> T0 - 1],
      [kind |-> "valid", data |-> Payload(0, "events", "pipeline"), ts |-> T0 - CACHE_TTL] }

InitCacheVars(disks) ==
    /\ disk \in disks
    /\ cache = Warm(disk)
    /\ clock = T0
    /\ ticks = 0
    /\ nreq = 0
    /\ pc = [th \in Threads |-> "idle"]
    /\ kind = [th \in Threads |-> "data"]
    /\ loc = [th \in Threads |-> NoLoc]
    /\ hist = [th \in Threads |-> NoHist]

InitPortal ==
    /\ InitPortalVars
    /\ InitCacheVars({AbsentFile})
    /\ InitAnalyzer({EmptyReport})
    /\ InitFetch({<<>>})
    /\ InitQuote
    /\ InitPaging({<<>>})
    /\ airtable_token \in BOOLEAN

InitCache ==
    /\ InitPortalVars
    /\ InitCacheVars(InitDisks)
    /\ InitAnalyzer({EmptyReport})
    /\ InitFetch({<<>>})
    /\ InitQuote
    /\ InitPaging({<<>>})
    /\ airtable_token \in BOOLEAN

NextPortal ==
    \/ \E body \in GenerateBodies : generate_quote(body)
    \/ \E s \in Sessions, t \in TokenIds : quote_gate(s, t)
    \/ \E s \in Sessions, t \in TokenIds, pw \in AuthPasswords :
          quote_auth(s, t, pw)
    \/ \E s \in Sessions, t \in TokenIds, o1 \in Outcomes, o2 \in Outcomes :
          quote_view(s, t, o1, o2)
    \/ \E s \in Sessions, t \in TokenIds, path \in {"update-event", "update-field"} :
          quote_update(s, t, path)

SpecPortal == InitPortal /\ [][NextPortal]_vars

-----------------------------------------------------------------------------
(* The cache as a state machine.  Flask serves each request on a thread of *)
(* its own (app.run, threaded by default) and fetch_live_data takes no     *)
(* lock: the steps of concurrent requests interleave.  NextCacheSeq is the  *)
(* server taking one request at a time; NextCache is two requests, each on *)
(* its thread, in every interleaving.                                      *)

NextCacheSeq ==
    \/ \E k \in {"data", "refresh"} : StartRequest("r1", k)
    \/ ResetTs("r1")
    \/ ReadNow("r1")
    \/ CheckCache("r1")
    \/ ReturnCached("r1")
    \/ \E o1 \in Outcomes, o2 \in Outcomes : FetchUpstream("r1", o1, o2)
    \/ WriteData("r1")
    \/ WriteTs("r1")
    \/ \E w \in {"written", "not_opened", "truncated"} : WriteFile("r1", w)
    \/ Finish("r1")
    \/ \E d \in ClockSteps : Tick(d)

NextCache ==
    \/ \E th \in Threads, k \in {"data", "refresh"} : StartRequest(th, k)
    \/ \E th \in Threads : ResetTs(th)
    \/ \E th \in Threads : ReadNow(th)
    \/ \E th \in Threads : CheckCache(th)
    \/ \E th \in Threads : ReturnCached(th)
    \/ \E th \in Threads, o \in Outcomes : FetchUpstream(th, o, o)
    \/ \E th \in Threads : WriteData(th)
    \/ \E th \in Threads : WriteTs(th)
    \/ \E th \in Threads, w \in {"written", "truncated"} : WriteFile(th, w)
    \/ Tick(CACHE_TTL)

SpecCacheSeq == InitCache /\ [][NextCacheSeq]_vars

InitCacheConc ==
    /\ InitPortalVars
    /\ InitCacheVars({AbsentFile, [kind |-> "valid", data |-> Payload(0, "events", "pipeline"), ts |-> T0 - 1]})
    /\ InitAnalyzer({EmptyReport})
    /\ InitFetch({<<>>})
    /\ InitQuote
    /\ InitPaging({<<>>})
    /\ airtable_token = TRUE

SpecCache == InitCacheConc /\ [][NextCache]_vars

-----------------------------------------------------------------------------
(* The analyzer as a state machine: one MarketingAnalyzer on one report,   *)
(* analyze() called up to MaxRuns times, main() sorting what it returned.  *)

InitAnalyzerRun ==
    /\ InitPortalVars
    /\ InitCacheVars({AbsentFile})
    /\ InitAnalyzer(Reports)
    /\ InitFetch({<<>>})
    /\ InitQuote
    /\ InitPaging({<<>>})
    /\ airtable_token = TRUE

NextAnalyzer ==
    \/ analyze
    \/ analyze_ad_conversion
    \/ analyze_pipeline_closure
    \/ analyze_followup_cadence
    \/ analyze_content_depth
    \/ analyze_traffic_sources
    \/ main

SpecAnalyzer == InitAnalyzerRun /\ [][NextAnalyzer]_vars

-----------------------------------------------------------------------------
(* The two fetchers run on the same CRM table *)

InitFetchRun ==
    /\ InitPortalVars
    /\ InitCacheVars({AbsentFile})
    /\ InitAnalyzer({EmptyReport})
    /\ InitFetch(SeqsUpTo(CrmRows, MaxRecords))
    /\ InitQuote
    /\ InitPaging({<<>>})
    /\ airtable_token = TRUE

NextFetch ==
    \/ airtable_block
    \/ get_airtable_data

SpecFetch == InitFetchRun /\ [][NextFetch]_vars

-----------------------------------------------------------------------------
(* Concurrent /generate-quote requests, each on its thread, followed by    *)
(* the gate route                                                          *)

InitQuoteConc ==
    /\ InitPortalVars
    /\ InitCacheVars({AbsentFile})
    /\ InitAnalyzer({EmptyReport})
    /\ InitFetch({<<>>})
    /\ InitQuote
    /\ InitPaging({<<>>})
    /\ airtable_token = TRUE

NextQuoteConc ==
    \/ \E th \in Threads, body \in GenerateBodies : generate_load(th, body)
    \/ \E th \in Threads : generate_save(th)
    \/ \E th \in Threads : generate_return(th)
    \/ \E s \in Sessions, t \in TokenIds : quote_gate(s, t)

SpecQuoteConc == InitQuoteConc /\ [][NextQuoteConc]_vars

-----------------------------------------------------------------------------
(* The four fetchers paging through the same list endpoint *)

InitPagingRun ==
    /\ InitPortalVars
    /\ InitCacheVars({AbsentFile})
    /\ InitAnalyzer({EmptyReport})
    /\ InitFetch({<<>>})
    /\ InitQuote
    /\ InitPaging(Listings)
    /\ airtable_token = TRUE

NextPaging ==
    \/ collector_posthog_page
    \/ collector_airtable_page
    \/ server_airtable_page
    \/ server_posthog_request

SpecPaging == InitPagingRun /\ [][NextPaging]_vars

-----------------------------------------------------------------------------
(* Properties of the quote portal (SpecPortal) *)

QuotePages == {"quote_page", "quote_page_blank"}
UpdateRoutes == {"update-event", "update-field"}

(* C1: for a token in the store, /view renders the quote page or calls the *)
(* CRM only if the requesting session holds the flag for that token; a     *)
(* session without the flag gets a redirect to the password page and no    *)
(* CRM call is made.                                                       *)
C1_ViewGated ==
    (resp.route = "view" /\ resp.t \in DOMAIN tokens) =>
        /\ (resp.body \in QuotePages \/ resp.crm # <<>>) => resp.t \in session[resp.s]
        /\ resp.t \notin session[resp.s] =>
              (resp.status = 302 /\ resp.body = "redirect_to_gate" /\ resp.crm = <<>>)

C1_Witness ==
    /\ resp.route = "view" /\ resp.status = 302
    /\ \E s \in Sessions : resp.t \in session[s]

(* C2: once a session has posted a token's stored password to /auth and    *)
(* got ok, every later /view of that token by that session answers with    *)
(* the quote page.                                                         *)
C2_AuthThenViewServes ==
    (resp.route = "view" /\ <<resp.s, resp.t>> \in submitted) =>
        (resp.status = 200 /\ resp.body \in QuotePages)

(* C3: an /auth request whose password differs from the stored one is     *)
(* answered 401, and the step leaves every session flag as it was.         *)
C3_WrongPasswordRejected ==
    /\ [](  (resp.route = "auth" /\ resp.t \in DOMAIN tokens
              /\ resp.pw # tokens[resp.t].password)
            => (resp.status = 401 /\ resp.body = "wrong_password"))
    /\ [][ (resp'.route = "auth" /\ resp'.status # 200) => session' = session ]_vars

C3_Witness ==
    /\ resp.route = "auth" /\ resp.status = 401 /\ resp.pw # <<>>
    /\ resp.t \notin session[resp.s]
    /\ \E s \in Sessions : resp.t \in session[s]

(* C4: a flag exists only for a (session, token) pair whose session        *)
(* submitted that token's password; a quote page is served only to such a  *)
(* pair; and every CRM call of a view asks for the record id stored for    *)
(* the viewed token.                                                       *)
C4_AuthScopedToSessionAndToken ==
    /\ \A s \in Sessions : \A t \in session[s] : <<s, t>> \in submitted
    /\ (resp.route = "view" /\ resp.body \in QuotePages) =>
           <<resp.s, resp.t>> \in submitted
    /\ (resp.route = "view" /\ resp.crm # <<>>) =>
           \A i \in 1..Len(resp.crm) : resp.crm[i] = tokens[resp.t].record_id

C4_Witness ==
    /\ resp.route = "view" /\ resp.status = 302 /\ resp.t \in DOMAIN tokens
    /\ \E t \in session[resp.s] : t # resp.t
    /\ \E s \in Sessions : resp.t \in session[s]

(* C5: a patch request by a session without the token's flag is rejected   *)
(* and sends no PATCH; a patch request by a session with the flag is       *)
(* permitted.                                                              *)
C5_PatchGatedByAuth ==
    resp.route \in UpdateRoutes =>
        IF resp.t \in session[resp.s]
        THEN resp.status = 200
        ELSE resp.status >= 400 /\ patches = 0

(* C6: for a token that is not in the store, the gate, /auth and /view     *)
(* answer 404 without a CRM call, and no session ever holds a flag for a   *)
(* token outside the store.                                                *)
C6_UnknownToken404 ==
    /\ (resp.route \in {"gate", "auth", "view"} /\ resp.t \notin DOMAIN tokens) =>
           (resp.status = 404 /\ resp.crm = <<>>)
    /\ \A s \in Sessions : session[s] \subseteq DOMAIN tokens

C6_Witness ==
    /\ resp.route = "auth" /\ resp.t \notin DOMAIN tokens /\ resp.pw # <<>>
    /\ session[resp.s] # {}

(* C7: when an authenticated session views a token whose record id the CRM *)
(* does not know and the lookup is answered not-found, the response is a   *)
(* 404, not a quote page.                                                  *)
C7_UnknownRecord404 ==
    (/\ resp.route = "view" /\ resp.t \in DOMAIN tokens
     /\ resp.t \in session[resp.s]
     /\ resp.crm # <<>> /\ resp.status # 500
     /\ tokens[resp.t].record_id \notin CrmRecords)
    => (resp.status = 404 /\ resp.body \notin QuotePages)

(* C8: every token a successful /generate-quote returned is in the store   *)
(* with the record id and password of its request (whitespace-stripped),   *)
(* and the store has exactly one key per successful /generate-quote.       *)
C8_TokensNeverRevoked ==
    /\ \A i \in issued :
          /\ i.token \in DOMAIN tokens
          /\ tokens[i.token] = [record_id |-> Strip(i.body.record_id),
                                password  |-> Strip(i.body.password)]
    /\ Cardinality(DOMAIN tokens) = Cardinality(issued)

C8_Witness ==
    /\ Cardinality(issued) >= 2
    /\ resp.route = "view" /\ resp.status = 200
    /\ \E i \in issued : i.body.password # tokens[i.token].password

-----------------------------------------------------------------------------
(* Properties of the cache *)

(* C9 (SpecCacheSeq): a finished read that found the slot populated with   *)
(* now - ts < TTL returned the payload it found, made no upstream fetch    *)
(* and left the slot as it was; any other finished read made exactly one   *)
(* fetch, returned its payload and left it in the slot with ts = now, so   *)
(* that reads within TTL of it are of the first kind.                      *)
C9_CacheRoundTrip ==
    \A th \in Threads :
        pc[th] = "done" =>
            LET h     == hist[th]
                fresh == h.seen.data.some /\ loc[th].now - h.seen.ts < CACHE_TTL
            IN  /\ fresh => (h.result = h.seen.data /\ h.fetches = 0 /\ cache = h.seen)
                /\ ~fresh => /\ h.fetches = 1
                             /\ h.result.some /\ h.result.epoch = h.req
                             /\ cache = [data |-> h.result, ts |-> loc[th].now]

C9_Witness ==
    \E th \in Threads :
        /\ pc[th] = "done" /\ hist[th].fetches = 0
        /\ hist[th].result.epoch >= 1 /\ hist[th].result.epoch < hist[th].req
        /\ clock > cache.ts

(* C10 (SpecCache): the response of /api/refresh carries the payload of a  *)
(* fetch made after the refresh request started.                           *)
C10_RefreshReturnsFreshFetch ==
    \A th \in Threads :
        (pc[th] = "done" /\ kind[th] = "refresh") =>
            (hist[th].result.some /\ hist[th].result.epoch >= hist[th].req)

(* C11 (SpecCache): whenever no request is in progress and a fetch has     *)
(* completed, the .cache.json document holds the payload and the timestamp *)
(* of the in-memory slot.  Stated for a readable file, the case most       *)
(* favourable to the claim: a file write that failed is left aside.        *)
C11_MirrorEqualsSlot ==
    ( /\ \A th \in Threads : pc[th] \in {"idle", "done"}
      /\ \E th \in Threads : hist[th].fetches >= 1
      /\ disk.kind = "valid" )
    => (disk.data = cache.data /\ disk.ts = cache.ts)

(* C12 (SpecCacheSeq): the slot only ever holds the payload of a fetch in  *)
(* which no upstream call failed.                                          *)
C12_SlotHoldsSuccessfulFetch ==
    cache.data.some =>
        (cache.data.ph = "events" /\ cache.data.at \in {"pipeline", "skipped"})

-----------------------------------------------------------------------------
(* Properties of the proposal engine (SpecAnalyzer) *)

(* The rules in the order analyze() runs them *)
RuleOrder == <<"ad_conversion", "pipeline_closure", "followup_cadence",
               "content_depth", "traffic_sources">>

RulePos(rule) == CHOOSE i \in 1..Len(RuleOrder) : RuleOrder[i] = rule

(* How often the rule has run to its end and returned, over all calls of   *)
(* analyze() so far                                                        *)
Evaluated(rule) ==
    IF apc \in {"idle", "returned", "printed"} THEN runs
    ELSE IF RulePos(apc) > RulePos(rule) THEN runs
    ELSE runs - 1

(* The proposals carrying the slug *)
WithSlug(props, slug) == { i \in 1..Len(props) : props[i].id.base = slug }

(* C13: each evaluation of the ad-conversion rule adds exactly one         *)
(* proposal low-conversion-ad-landing of priority high when the views      *)
(* summed over all ad landing pages exceed 50 and new_leads_7d (0 if       *)
(* missing) is below 20, and adds none when the sum is at most 50 or the   *)
(* lead count is at least 20.                                              *)
C13_AdConversionRule ==
    LET sum   == SumViews(report.ad_landing_pages)
        leads == IF report.new_leads_7d = <<>> THEN 0 ELSE report.new_leads_7d[1]
        mine  == WithSlug(proposals, "low-conversion-ad-landing")
    IN  /\ (sum > 50 /\ leads < 20) =>
               Cardinality(mine) = Evaluated("ad_conversion")
        /\ (sum <= 50 \/ leads >= 20) => mine = {}
        /\ \A i \in mine : proposals[i].priority = "high"

(* The rule has fired on views that only exceed 50 when summed over two pages *)
C13_Witness ==
    /\ apc = "pipeline_closure"
    /\ Len(report.ad_landing_pages) = 2
    /\ \A i \in 1..2 : report.ad_landing_pages[i].views <= 26
    /\ WithSlug(proposals, "low-conversion-ad-landing") # {}

(* C14: each evaluation of the closure rule adds exactly one proposal      *)
(* zero-closes-quoted of priority high when quoted > 15 and booked = 0     *)
(* (missing counts read as 0), and none when booked >= 1 or quoted <= 15.  *)
C14_PipelineClosureRule ==
    LET quoted == IF report.pipeline.quoted = <<>> THEN 0 ELSE report.pipeline.quoted[1]
        booked == IF report.pipeline.booked = <<>> THEN 0 ELSE report.pipeline.booked[1]
        mine   == WithSlug(proposals, "zero-closes-quoted")
    IN  /\ (quoted > 15 /\ booked = 0) =>
               Cardinality(mine) = Evaluated("pipeline_closure")
        /\ (booked >= 1 \/ quoted <= 15) => mine = {}
        /\ \A i \in mine : proposals[i].priority = "high"

(* The rule has fired on a pipeline whose booked count is missing *)
C14_Witness ==
    /\ apc = "followup_cadence"
    /\ report.pipeline.booked = <<>>
    /\ WithSlug(proposals, "zero-closes-quoted") # {}

(* C15: the ids of the proposals an analyzer holds are pairwise distinct,  *)
(* also when a slug is proposed more than once and analyze() is called     *)
(* more than once.                                                         *)
C15_IdsDistinct ==
    \A i, j \in 1..Len(proposals) :
        i # j => proposals[i].id # proposals[j].id

(* Two proposals of the same slug, from two calls of analyze() *)
C15_Witness ==
    /\ runs = 2
    /\ \E i, j \in 1..Len(proposals) :
           i < j /\ proposals[i].id.base = proposals[j].id.base

(* C16: the list main() prints and writes is a permutation of the list    *)
(* analyze() returned, with every high proposal before every medium one    *)
(* and every medium one before every low one, and with proposals of equal  *)
(* priority in the order analyze() produced them.                          *)
C16_SortedStablePermutation ==
    apc = "printed" =>
        LET s == sorted_proposals
            p == proposals
            at(x) == CHOOSE k \in 1..Len(s) : s[k] = x
        IN  /\ Len(s) = Len(p)
            /\ \A i \in 1..Len(p) : \E k \in 1..Len(s) : s[k] = p[i]
            /\ \A i, j \in 1..Len(s) :
                   i < j => priority_order(s[i].priority) <= priority_order(s[j].priority)
            /\ \A i, j \in 1..Len(p) :
                   (i < j /\ p[i].priority = p[j].priority) => at(p[i]) < at(p[j])

(* main() has sorted the result of one analyze() call that holds two high  *)
(* proposals and a medium one                                              *)
C16_Witness ==
    /\ apc = "printed" /\ runs = 1
    /\ \E i, j, k \in 1..Len(sorted_proposals) :
           /\ i < j /\ j < k
           /\ sorted_proposals[i].priority = "high"
           /\ sorted_proposals[j].priority = "high"
           /\ sorted_proposals[k].priority = "medium"

(* C17: analyze() never raises, whatever fields of the report are missing, *)
(* empty or zero: no rule ends in an exception (a division by zero among   *)
(* them).                                                                  *)
C17_AnalyzeNeverRaises == exc = ""

-----------------------------------------------------------------------------
(* Properties of the CRM aggregation (SpecFetch) *)

Buckets == {"new", "quoted", "booked", "no_go"}

(* The rows a fetcher counts: the server the main contacts among the rows  *)
(* its query returns, the collector every row                              *)
ServerCounted == { i \in 1..Len(crm_table) :
                      IsActive(crm_table[i]) /\ IsMainContact(crm_table[i]) }
CollectorCounted == 1..Len(crm_table)

(* C18: bucketing is a partition by the status map: each counted row with  *)
(* a recognized status is in exactly the bucket the map gives, a row with  *)
(* an unrecognized status in none, and the four counts add up to the       *)
(* number of counted rows with a recognized status.                        *)
C18_BucketsPartition ==
    /\ live_data.some =>
          LET p == live_data.pipeline
          IN  /\ \A b \in Buckets :
                     p[b] = Cardinality({ i \in ServerCounted :
                                              ServerStatusMap(crm_table[i].status) = b })
              /\ p.new + p.quoted + p.booked + p.no_go =
                     Cardinality({ i \in ServerCounted :
                                       ServerStatusMap(crm_table[i].status) # "" })
    /\ collected.some =>
          LET p == collected.pipeline
          IN  /\ \A b \in Buckets :
                     p[b] = Cardinality({ i \in CollectorCounted :
                                              CollectorStatusMap(crm_table[i].status) = b })
              /\ p.new + p.quoted + p.booked + p.no_go =
                     Cardinality({ i \in CollectorCounted :
                                       CollectorStatusMap(crm_table[i].status) # "" })

(* Both fetchers have run on a table holding a row they bucket and a row   *)
(* whose status the collector's map does not know                          *)
C18_Witness ==
    /\ live_data.some /\ collected.some
    /\ live_data.pipeline.quoted = 1
    /\ \E i \in 1..Len(crm_table) : crm_table[i].status = "Booked - Deposit"
    /\ collected.pipeline.quoted = 1 /\ collected.pipeline.booked = 0

(* C19: both fetchers discard the rows whose Contact Type is not the       *)
(* primary contact before bucketing: no such row enters a pipeline count,  *)
(* the new-lead count, the pipeline value or a lead list.                  *)
C19_OnlyPrimaryContactsCounted ==
    LET primary == { i \in 1..Len(crm_table) : IsMainContact(crm_table[i]) }
    IN  /\ live_data.some =>
              /\ live_data.total_leads <= Cardinality(primary)
              /\ \A b \in Buckets :
                     live_data.pipeline[b] <=
                         Cardinality({ i \in primary :
                                           ServerStatusMap(crm_table[i].status) = b })
        /\ collected.some =>
              /\ collected.new_leads_7d <=
                     Cardinality({ i \in primary : crm_table[i].recent })
              /\ \A b \in Buckets :
                     collected.pipeline[b] <=
                         Cardinality({ i \in primary :
                                           CollectorStatusMap(crm_table[i].status) = b })
              /\ Len(collected.leads_needing_followup) <= Cardinality(primary)
              /\ (primary = {} => collected.total_pipeline_value = 0)

-----------------------------------------------------------------------------
(* Upstream failures on the routes that call the CRM (SpecPortal) *)

(* C20: an upstream failure is absorbed by the handler: the view route     *)
(* answers with a page built from empty or partial data, never with the    *)
(* 500 of an escaped exception.                                            *)
C20_UpstreamFailureAbsorbed ==
    resp.route = "view" => resp.status # 500

-----------------------------------------------------------------------------
(* Concurrent requests (SpecCache) *)

(* C21: once all concurrent fetch_live_data calls have finished, the       *)
(* payload and the timestamp of the slot come from one and the same fetch. *)
C21_SlotFromOneFetch ==
    ( /\ \A th \in Threads : pc[th] \in {"idle", "done"}
      /\ \E th \in Threads : hist[th].fetches >= 1 )
    => \E th \in Threads :
           /\ hist[th].fetches >= 1
           /\ cache.data = loc[th].data
           /\ cache.ts = loc[th].now

-----------------------------------------------------------------------------
(* Concurrent /generate-quote requests (SpecQuoteConc) *)

(* C22: once every /generate-quote request has finished, the store holds   *)
(* every token that was returned to a caller with ok = true.               *)
C22_IssuedTokensStored ==
    (\A th \in Threads : qpc[th] = "idle") =>
        \A i \in issued : i.token \in DOMAIN tokens

-----------------------------------------------------------------------------
(* Further properties of the proposal engine (SpecAnalyzer) *)

(* C23: the id of a proposal carries a sequence number kept per slug: the  *)
(* first proposal of a slug has number 1, whatever other rules fired       *)
(* before it.                                                              *)
C23_SequencePerSlug ==
    \A i \in 1..Len(proposals) :
        (\A j \in 1..(i - 1) : proposals[j].id.base # proposals[i].id.base)
            => proposals[i].id.n = 1

(* How often the rule has been called and has ended, by returning or by   *)
(* raising                                                                 *)
Ended(rule) ==
    IF apc = rule /\ exc # "" THEN Evaluated(rule) + 1 ELSE Evaluated(rule)

(* C24: each call of the content-depth rule adds exactly one proposal      *)
(* homepage-bounce when the first entry of top_pages has url "/" and its   *)
(* views exceed half the summed views of the other entries, and none       *)
(* otherwise (top_pages empty, or its first entry not the site root).      *)
C24_ContentDepthRule ==
    LET tp    == report.top_pages
        fires == /\ tp # <<>>
                 /\ tp[1].url = "/"
                 /\ 2 * tp[1].views > SumViews(Tail(tp))
        mine  == WithSlug(proposals, "homepage-bounce")
    IN  /\ fires => Cardinality(mine) = Ended("content_depth")
        /\ ~fires => mine = {}

(* C25: each call of the SEO-gap rule adds exactly one proposal seo-gap    *)
(* when organic + direct > 100 and organic is below 60% of organic +       *)
(* direct, organic = 0 with direct > 100 included, and none otherwise.     *)
C25_SeoGapRule ==
    LET c     == CountSources(report.traffic_sources, [organic |-> 0, direct |-> 0])
        total == c.organic + c.direct
        fires == total > 100 /\ c.organic * 100 < 60 * total
        mine  == WithSlug(proposals, "seo-gap")
    IN  /\ fires => Cardinality(mine) = Ended("traffic_sources")
        /\ ~fires => mine = {}

(* C26: on leads that all carry a last-contact date, each call of the      *)
(* backlog rule adds exactly one proposal followup-backlog when there are  *)
(* more than 3 leads and none when there are 3 or fewer, and the overdue   *)
(* figure of the proposal is the number of leads last contacted more than  *)
(* 14 days ago, 14 days and some hours included.                           *)
C26_BacklogRule ==
    LET leads == report.leads_needing_followup
        dated == \A k \in 1..Len(leads) : leads[k].last_contact.kind = "date"
        late  == { k \in 1..Len(leads) : leads[k].last_contact.age_hours > 14 * 24 }
        mine  == WithSlug(proposals, "followup-backlog")
    IN  dated =>
            /\ Len(leads) > 3 => Cardinality(mine) = Ended("followup_cadence")
            /\ Len(leads) <= 3 => mine = {}
            /\ \A i \in mine : proposals[i].issue[2] = Cardinality(late)

-----------------------------------------------------------------------------
(* Paging (SpecPaging) *)

(* The pages before the first one answered with a non-success status *)
PagesServed ==
    { i \in 1..Len(listing) : \A j \in 1..i : listing[j].status = "ok" }

(* C27: every fetcher requests the pages in cursor order, each at most     *)
(* once, and when it is done it has aggregated the records of all pages    *)
(* up to the last page or up to the first non-success answer.              *)
C27_AllPagesAggregated ==
    \A f \in Fetchers :
        LET st == paging[f]
        IN  /\ \A i \in 1..Len(st.requested) : st.requested[i] = i
            /\ st.done =>
                  /\ Len(st.got) = Cardinality(PagesServed)
                  /\ \A i \in 1..Len(st.got) : st.got[i] = i

-----------------------------------------------------------------------------
(* Start-up (SpecCacheSeq) *)

(* C28: the first read of a freshly started process returns the mirrored   *)
(* payload without an upstream call when .cache.json holds a payload whose *)
(* timestamp is within CACHE_TTL of the read, and performs a live fetch    *)
(* when the file is absent, unreadable, without payload or older.  Until   *)
(* the first request writes it, the file is the one the process found.     *)
C28_WarmStart ==
    LET first       == hist["r1"].req = 1 /\ kind["r1"] = "data"
        mirrorFresh == /\ disk.kind = "valid"
                       /\ disk.data.some
                       /\ loc["r1"].now - disk.ts < CACHE_TTL
    IN  first =>
            /\ pc["r1"] = "hit" => mirrorFresh
            /\ pc["r1"] = "fetch" => (~mirrorFresh /\ hist["r1"].fetches = 0)
            /\ (pc["r1"] = "done" /\ hist["r1"].fetches = 0) =>
                   (mirrorFresh /\ hist["r1"].result = disk.data)
            /\ (pc["r1"] = "write_data") => hist["r1"].fetches = 1

(* The first read was served from the mirror some time after start-up *)
C28_Witness ==
    /\ hist["r1"].req = 1 /\ kind["r1"] = "data"
    /\ pc["r1"] = "done" /\ hist["r1"].fetches = 0
    /\ hist["r1"].result.some
    /\ loc["r1"].now > T0

-----------------------------------------------------------------------------
(* One analyze() call as a whole (SpecAnalyzer) *)

RuleSlug == <<"low-conversion-ad-landing", "zero-closes-quoted", "followup-backlog",
              "homepage-bounce", "seo-gap">>

(* Whether a rule triggers on the report, each from the part it reads *)
Triggers(i) ==
    LET c  == CountSources(report.traffic_sources, [organic |-> 0, direct |-> 0])
        tp == report.top_pages
    IN  IF i = 1 THEN /\ SumViews(report.ad_landing_pages) > 50
                      /\ Get(report.new_leads_7d, 0) < 20
        ELSE IF i = 2 THEN /\ Get(report.pipeline.quoted, 0) > 15
                           /\ Get(report.pipeline.booked, 0) = 0
        ELSE IF i = 3 THEN Len(report.leads_needing_followup) > 3
        ELSE IF i = 4 THEN /\ tp # <<>>
                           /\ tp[1].url = "/"
                           /\ 2 * tp[1].views > SumViews(Tail(tp))
        ELSE /\ c.organic + c.direct > 100
             /\ c.organic * 100 < 60 * (c.organic + c.direct)

(* The slugs of the rules that trigger, in rule order *)
RECURSIVE TriggeredSlugs(_)
TriggeredSlugs(i) ==
    IF i > Len(RuleSlug) THEN <<>>
    ELSE (IF Triggers(i) THEN <<RuleSlug[i]>> ELSE <<>>) \o TriggeredSlugs(i + 1)

(* C29: one analyze() call on a fresh analyzer runs the five rules in      *)
(* order and returns the proposals of exactly the rules that trigger, one  *)
(* each, in rule order.                                                    *)
C29_AnalyzeRunsAllRules ==
    (runs = 1 /\ (apc \in {"returned", "printed"} \/ exc # "")) =>
        /\ exc = ""
        /\ [i \in 1..Len(proposals) |-> proposals[i].id.base] = TriggeredSlugs(1)

====
